---- MODULE Spec2Model ----
(***************************************************************************)
(* Event-driven coordination pipeline of the Coordination Intelligence     *)
(* Platform: the behaviour state machine (app/core/state_machine.py), the  *)
(* Slack signature verifier and ingestion gateway                          *)
(* (app/services/event_ingestion.py, app/core/security.py,                 *)
(* app/api/events.py) and the event handler (app/main.py,                  *)
(* app/services/conversation_memory.py).                                   *)
(*                                                                         *)
(* The module holds one specification per component:                       *)
(*   SpecSM       one BehaviorStateMachine object and its methods          *)
(*   SpecVerify   the two signature verifiers as functions of their input  *)
(*   SpecGateway  webhook requests, the event queue and the consumer loop  *)
(*   SpecGatewayFair  event_callback requests, every ready task is run     *)
(*   SpecHandle   handle_event applied to events, over the database        *)
(*   SpecCoord    CoordinationAgent.evaluate as a function of its input    *)
(*   SpecGaps     AnalyticsEngine.detect_gaps over the rows it reads       *)
(*   SpecIntervene  CoordinationAgent.should_intervene as a function       *)
(*   SpecUnits    handle_event calls as tasks of one asyncio event loop    *)
(*   SpecUnitsFair  the same under a loop that runs every ready task       *)
(* Each specification leaves the variables of the others at their initial  *)
(* values.                                                                 *)
(***************************************************************************)
EXTENDS Integers, Sequences, FiniteSets, TLC

VARIABLES
    \* ---- BehaviorStateMachine (state_machine.py) ----
    current_state,      \* self.current_state
    transitions,        \* self.transitions, a list of StateTransition
    state_timestamps,   \* self.state_timestamps, state -> entry time or None
    sm_now,             \* the clock datetime.utcnow() reads
    sm_op,              \* the method call made by the last step, with its argument
    sm_ret,             \* what that call returned
    sm_successes,       \* number of transition_to calls that returned a record
    \* ---- verify_signature / verify_slack_signature as functions ----
    vf_in,              \* the inputs: timestamp header, signature header, body, time.time()
    vf_out,             \* the outcome of each verifier on vf_in, or "pending"
    \* ---- EventIngestionService and the /events/slack routes ----
    rpc,                \* position of the request inside handle_slack_event
    req,                \* the request being handled
    is_valid,           \* verify_signature's outcome for req
    validated_event,    \* _parse_event's result for req
    event_queue,        \* self._event_queue
    running,            \* self._running
    cpc,                \* position of the start_processing task
    inflight,           \* the event the consumer took from the queue
    callbacks,          \* events handed to self.on_event, in order
    processed,          \* events handed to _process_queued_event, in order
    handled,            \* events for which handle_event's body has started
    response,           \* what the last finished request returned to its caller
    nreq,               \* number of requests received so far
    \* ---- handle_event over the database (main.py, conversation_memory.py) ----
    conversations,      \* conversations table: key -> row or NoRow
    messages,           \* messages table, in insertion order
    state_transitions,  \* state_transitions table, in insertion order
    hd_last,            \* what the last handle_event call did
    hd_count,           \* number of handle_event calls so far
    \* ---- CoordinationAgent.evaluate and AnalyticsService.detect_gaps ----
    ev_in,              \* evaluate's arguments and the clock it reads
    ev_out,             \* the decision evaluate returned, or "pending"
    decision_history,   \* self.decision_history
    gap_in,             \* the rows detect_gaps reads and the clock it reads
    gap_out,            \* the list detect_gaps returned, or "pending"
    communication_gaps, \* communication_gaps table, in insertion order
    si_in,              \* the conversation_metrics dict given to should_intervene
    si_out,             \* what should_intervene returned, or "pending"
    \* ---- handle_event calls as tasks of one event loop (main.py) ----
    unit_pc,            \* call -> the statement of handle_event it stands at
    unit_read,          \* call -> conversation["current_state"] as the call read it
    unit_signal,        \* call -> the signal analyze_message returned to it
    unit_trace,         \* call -> the calls handle_event has made, in order
    loop_task,          \* the call the event loop is running, 0 for none
    conv_state          \* persisted current_state of the calls' conversation

smVars == <<current_state, transitions, state_timestamps, sm_now, sm_op, sm_ret, sm_successes>>
vfVars == <<vf_in, vf_out>>
gwVars == <<rpc, req, is_valid, validated_event, event_queue, running, cpc, inflight,
            callbacks, processed, handled, response, nreq>>
hdVars == <<conversations, messages, state_transitions, hd_last, hd_count>>
siVars == <<si_in, si_out>>
agVars == <<ev_in, ev_out, decision_history, gap_in, gap_out, communication_gaps, siVars>>
unVars == <<unit_pc, unit_read, unit_signal, unit_trace, loop_task, conv_state>>
vars == <<smVars, vfVars, gwVars, hdVars, agVars, unVars>>

None == "None"

\* The elements of a sequence
Range(seq) == {seq[i] : i \in 1..Len(seq)}

\* The absent entry of state_timestamps (dict.get returns None).
NoTime == -1

\* Return values of the state machine's methods.
RetNone == [kind |-> "None"]
RetTransition(t) == [kind |-> "StateTransition", value |-> t]
RetBool(b) == [kind |-> "bool", value |-> b]

\* ---------------------------------------------------------------------------
\* Bounds of the model
\* ---------------------------------------------------------------------------
MaxTransitions == 3     \* longest transitions list explored
MaxClock == 3           \* last clock reading explored for the state machine
MaxRequests == 3        \* number of HTTP requests explored
MaxHandled == 3         \* number of handle_event calls explored

\* ---------------------------------------------------------------------------
\* ConversationState and BehaviorStateMachine (app/core/state_machine.py)
\* ---------------------------------------------------------------------------
IDLE == "idle"
QUESTION_RAISED == "question_raised"
CLARIFYING == "clarifying"
OWNER_ASSIGNED == "owner_assigned"
IN_PROGRESS == "in_progress"
RESOLVED == "resolved"

ConversationState == {IDLE, QUESTION_RAISED, CLARIFYING, OWNER_ASSIGNED, IN_PROGRESS, RESOLVED}

\* A faulty variant of VALID_TRANSITIONS: resolved is final.
VALID_TRANSITIONS_noreopen ==
    [s \in ConversationState |->
        CASE s = IDLE            -> {QUESTION_RAISED, CLARIFYING}
          [] s = QUESTION_RAISED -> {CLARIFYING, OWNER_ASSIGNED, RESOLVED}
          [] s = CLARIFYING      -> {QUESTION_RAISED, OWNER_ASSIGNED, RESOLVED}
          [] s = OWNER_ASSIGNED  -> {IN_PROGRESS, CLARIFYING, RESOLVED}
          [] s = IN_PROGRESS     -> {RESOLVED, CLARIFYING}
          [] s = RESOLVED        -> {}]

VALID_TRANSITIONS ==
    [s \in ConversationState |->
        CASE s = IDLE            -> {QUESTION_RAISED, CLARIFYING}
          [] s = QUESTION_RAISED -> {CLARIFYING, OWNER_ASSIGNED, RESOLVED}
          [] s = CLARIFYING      -> {QUESTION_RAISED, OWNER_ASSIGNED, RESOLVED}
          [] s = OWNER_ASSIGNED  -> {IN_PROGRESS, CLARIFYING, RESOLVED}
          [] s = IN_PROGRESS     -> {RESOLVED, CLARIFYING}
          [] s = RESOLVED        -> {IDLE, QUESTION_RAISED}]

\* A faulty variant of can_transition: a state may "transition" to itself.
can_transition_selfloop(cur, new_state) ==
    new_state \in VALID_TRANSITIONS[cur] \cup {cur}

\* can_transition: new_state in VALID_TRANSITIONS.get(current_state, [])
can_transition(cur, new_state) ==
    new_state \in VALID_TRANSITIONS[cur]

\* The trigger and metadata arguments the callers pass (metadata is left out
\* by every caller).
Triggers == {"question_asked"}
MetadataArgs == {None}

\* A faulty variant of the StateTransition constructor call: from_state is always the
\* initial state.
NewTransition_fromidle(cur, new_state, trigger, metadata, ts, n) ==
    [id |-> n, from_state |-> IDLE, to_state |-> new_state, trigger |-> trigger,
     timestamp |-> ts, metadata |-> IF metadata = None THEN "{}" ELSE metadata]

\* A faulty variant of the StateTransition constructor call: from_state is taken after
\* current_state was overwritten.
NewTransition_fromnew(cur, new_state, trigger, metadata, ts, n) ==
    [id |-> n, from_state |-> new_state, to_state |-> new_state, trigger |-> trigger,
     timestamp |-> ts, metadata |-> IF metadata = None THEN "{}" ELSE metadata]

\* StateTransition(id=uuid4(), from_state=self.current_state, to_state=new_state,
\*                 trigger=trigger, timestamp=utcnow(), metadata=metadata or {})
\* The uuid is modelled by the record's position in the list.
NewTransition(cur, new_state, trigger, metadata, ts, n) ==
    [id |-> n, from_state |-> cur, to_state |-> new_state, trigger |-> trigger,
     timestamp |-> ts, metadata |-> IF metadata = None THEN "{}" ELSE metadata]

\* A faulty variant of append_transition: the list keeps the newest record
\* only.
append_transition_newestonly(list, transition) == <<transition>>

\* self.transitions.append(transition)
append_transition(list, transition) == Append(list, transition)

InitSM_vars ==
    /\ current_state = IDLE
    /\ transitions = <<>>
    /\ state_timestamps = [s \in ConversationState |-> NoTime]
    /\ sm_now = 0
    /\ sm_op = [name |-> "__init__", arg |-> None]
    /\ sm_ret = RetNone
    /\ sm_successes = 0

\* transition_to(new_state, trigger, metadata): the two utcnow() calls of
\* lines 94 and 100 read the clock d ticks apart.
transition_to(new_state, trigger, metadata) ==
    /\ sm_op' = [name |-> "transition_to", arg |-> new_state]
    /\ IF ~can_transition(current_state, new_state)
       THEN /\ sm_ret' = RetNone
            /\ UNCHANGED <<current_state, transitions, state_timestamps, sm_now, sm_successes>>
       ELSE /\ Len(transitions) < MaxTransitions
            /\ \E d \in 0..1 :
                /\ sm_now + d <= MaxClock
                /\ LET transition == NewTransition(current_state, new_state, trigger, metadata,
                                                   sm_now, Len(transitions) + 1)
                   IN  /\ transitions' = append_transition(transitions, transition)
                       /\ current_state' = new_state
                       /\ state_timestamps' = [state_timestamps EXCEPT ![new_state] = sm_now + d]
                       /\ sm_now' = sm_now + d
                       /\ sm_ret' = RetTransition(transition)
                       /\ sm_successes' = sm_successes + 1

TransitionTo ==
    /\ \E new_state \in ConversationState, trigger \in Triggers, metadata \in MetadataArgs :
            transition_to(new_state, trigger, metadata)
    /\ UNCHANGED <<vfVars, gwVars, hdVars, agVars, unVars>>

\* can_transition called from outside: a query, returns a boolean.
CanTransition ==
    /\ \E new_state \in ConversationState :
        /\ sm_op' = [name |-> "can_transition", arg |-> new_state]
        /\ sm_ret' = RetBool(can_transition(current_state, new_state))
    /\ UNCHANGED <<current_state, transitions, state_timestamps, sm_now, sm_successes>>
    /\ UNCHANGED <<vfVars, gwVars, hdVars, agVars, unVars>>

RetFloat(x) == [kind |-> "float", value |-> x]

\* self.state_timestamps.get(target_state)
EntryTime(timestamps, target_state) == timestamps[target_state]

\* A faulty variant of get_time_in_state: without an argument no state is
\* looked up.
get_time_in_state_nodefault(state) ==
    IF state = None THEN 0
    ELSE IF EntryTime(state_timestamps, state) = NoTime THEN 0
    ELSE sm_now - EntryTime(state_timestamps, state)

\* get_time_in_state(state): "state or self.current_state" picks the state,
\* 0.0 when it has no entry time, else the clock minus the entry time, in
\* seconds.
get_time_in_state(state) ==
    LET target_state == IF state = None THEN current_state ELSE state
        entry_time == EntryTime(state_timestamps, target_state)
    IN  IF entry_time = NoTime THEN 0 ELSE sm_now - entry_time

\* get_time_in_state called with a state or with no argument: a query.
GetTimeInState ==
    /\ \E state \in ConversationState \cup {None} :
        /\ sm_op' = [name |-> "get_time_in_state", arg |-> state]
        /\ sm_ret' = RetFloat(get_time_in_state(state))
    /\ UNCHANGED <<current_state, transitions, state_timestamps, sm_now, sm_successes>>
    /\ UNCHANGED <<vfVars, gwVars, hdVars, agVars, unVars>>

RetList(l) == [kind |-> "list", value |-> l]

\* get_state_history(): a new list with one dict per record, built from the
\* states' values, the trigger and timestamp.isoformat().
get_state_history(list) ==
    [i \in 1..Len(list) |->
        [from |-> list[i].from_state, to |-> list[i].to_state, trigger |-> list[i].trigger,
         timestamp |-> [isoformat |-> list[i].timestamp]]]

\* get_state_history called: a query.
GetStateHistory ==
    /\ sm_op' = [name |-> "get_state_history", arg |-> None]
    /\ sm_ret' = RetList(get_state_history(transitions))
    /\ UNCHANGED <<current_state, transitions, state_timestamps, sm_now, sm_successes>>
    /\ UNCHANGED <<vfVars, gwVars, hdVars, agVars, unVars>>

\* Time passes between two calls.
TickSM ==
    /\ sm_now < MaxClock
    /\ sm_now' = sm_now + 1
    /\ sm_op' = [name |-> "none", arg |-> None]
    /\ sm_ret' = RetNone
    /\ UNCHANGED <<current_state, transitions, state_timestamps, sm_successes>>
    /\ UNCHANGED <<vfVars, gwVars, hdVars, agVars, unVars>>

\* ---------------------------------------------------------------------------
\* Signature verification (app/services/event_ingestion.py lines 44-64,
\* app/core/security.py lines 18-41).
\*
\* Header values and bodies are strings, modelled as sequences of characters.
\* time.time() is read in whole seconds.
\* ---------------------------------------------------------------------------
Digits == <<"0", "1", "2", "3", "4", "5", "6", "7", "8", "9">>

IsDigit(c) == \E i \in 1..10 : Digits[i] = c

DigitVal(c) == (CHOOSE i \in 1..10 : Digits[i] = c) - 1

RECURSIVE StripLeft(_)
StripLeft(s) == IF s # <<>> /\ Head(s) = " " THEN StripLeft(Tail(s)) ELSE s

RECURSIVE StripRight(_)
StripRight(s) ==
    IF s # <<>> /\ s[Len(s)] = " " THEN StripRight(SubSeq(s, 1, Len(s) - 1)) ELSE s

\* The digits of an int() literal once blanks and a sign are removed.
Unsigned(s) ==
    LET t == StripRight(StripLeft(s))
    IN  IF t # <<>> /\ Head(t) \in {"-", "+"} THEN Tail(t) ELSE t

\* int(s) succeeds: optional blanks, an optional sign, one or more digits.
\* Anything else (the empty string, letters) raises ValueError.
IsIntLiteral(s) ==
    LET u == Unsigned(s) IN u # <<>> /\ \A i \in 1..Len(u) : IsDigit(u[i])

RECURSIVE DigitsValue(_)
DigitsValue(u) ==
    IF u = <<>> THEN 0 ELSE 10 * DigitsValue(SubSeq(u, 1, Len(u) - 1)) + DigitVal(u[Len(u)])

\* int(s) for a literal s.
IntOf(s) ==
    LET t == StripRight(StripLeft(s))
    IN  IF Head(t) = "-" THEN 0 - DigitsValue(Unsigned(s)) ELSE DigitsValue(Unsigned(s))

Abs(x) == IF x < 0 THEN 0 - x ELSE x

\* 60 * 5, the replay window in seconds
ReplayWindow == 300

\* A faulty variant of the freshness test: a request exactly at the window is stale too.
IsStale_inclusive(now, timestamp) == Abs(now - IntOf(timestamp)) >= ReplayWindow

\* abs(time.time() - int(timestamp)) > 60 * 5
IsStale(now, timestamp) == Abs(now - IntOf(timestamp)) > ReplayWindow

\* f"v0:{timestamp}".encode() + body
sig_basestring(timestamp, body) == <<"v", "0", ":">> \o timestamp \o body

\* hmac.new(key, msg, sha256).hexdigest(): a keyed digest, taken to be free of
\* collisions, so it is the pair of its arguments.
HmacHex(key, msg) == <<key, msg>>

\* "v0=" + hexdigest
MySignature(key, timestamp, body) ==
    [prefix |-> "v0=", digest |-> HmacHex(key, sig_basestring(timestamp, body))]

\* A signature header that is not ASCII text, and the default "" of a missing
\* header.
NonAscii == [prefix |-> "non-ascii", digest |-> <<>>]
NoSignature == [prefix |-> "", digest |-> <<>>]

\* hmac.compare_digest(a, b) on two str: equality, TypeError when b holds
\* non-ASCII characters.
compare_digest(a, b) ==
    IF b = NonAscii THEN "TypeError" ELSE IF a = b THEN "True" ELSE "False"

\* settings.slack_signing_secret
SigningSecret == "dev-signing-secret"

\* EventIngestionService.verify_signature; the result is the returned boolean
\* or the exception raised.
verify_signature(timestamp, signature, body, now) ==
    IF ~IsIntLiteral(timestamp) THEN "ValueError"
    ELSE IF IsStale(now, timestamp) THEN "False"
    ELSE compare_digest(MySignature(SigningSecret, timestamp, body), signature)

\* SecurityManager.verify_slack_signature: a stale timestamp raises
\* HTTPException(401) instead of returning.
verify_slack_signature(timestamp, signature, body, now) ==
    IF ~IsIntLiteral(timestamp) THEN "ValueError"
    ELSE IF IsStale(now, timestamp) THEN "HTTPException"
    ELSE compare_digest(MySignature(SigningSecret, timestamp, body), signature)

\* The timestamp headers tried: a number, the same with a trailing blank, the
\* default "" of a missing header, and text that is no number.
TimestampHeaders ==
    { <<"1", "0", "0", "0">>, <<"1", "0", "0", "0", " ">>, <<>>, <<"1", "x">> }

Bodies == { <<"{", "}">>, <<" ", "{", "}">> }

\* time.time() at the moment of the check: ages 301, 300, 0, -300 and -301 of
\* the timestamp 1000.
NowValues == {1301, 1300, 1000, 700, 699}

\* What a sender can put in the signature header: a "v0=" signature made with
\* some key over the base string of some timestamp and body, with or without a
\* ":" between the two, nothing at all (the default ""), or non-ASCII text.
SenderKeys == {SigningSecret, "another-secret"}

SenderBases ==
    UNION { { sig_basestring(t, b), <<"v", "0", ":">> \o t \o <<":">> \o b } :
            <<t, b>> \in TimestampHeaders \X Bodies }

SignatureHeaders ==
    { [prefix |-> "v0=", digest |-> HmacHex(k, m)] : <<k, m>> \in SenderKeys \X SenderBases }
        \cup { NoSignature, NonAscii }

VerifyInputs ==
    [timestamp : TimestampHeaders, signature : SignatureHeaders, body : Bodies, now : NowValues]

VfPending == [gateway |-> "pending", security |-> "pending"]

InitVerify_vars ==
    /\ vf_in \in VerifyInputs
    /\ vf_out = VfPending

\* Both verifiers are applied to the inputs.
Verify ==
    /\ vf_out = VfPending
    /\ vf_out' = [gateway |-> verify_signature(vf_in.timestamp, vf_in.signature,
                                               vf_in.body, vf_in.now),
                  security |-> verify_slack_signature(vf_in.timestamp, vf_in.signature,
                                                      vf_in.body, vf_in.now)]
    /\ UNCHANGED <<vf_in, smVars, gwVars, hdVars, agVars, unVars>>

\* ---------------------------------------------------------------------------
\* Ingestion gateway (app/services/event_ingestion.py, app/api/events.py) and
\* the consumer task started by lifespan (app/main.py lines 57-72).
\*
\* Everything runs on one asyncio event loop.  handle_slack_event awaits only
\* coroutines that never suspend (verify_signature, _process_event_callback,
\* put on an unbounded Queue), so a request runs from receipt to response
\* without another task in between; the consumer runs until it suspends in
\* get() on an empty queue.
\* ---------------------------------------------------------------------------
NoEvent == [kind |-> "None"]
NoReq == [id |-> 0]
NoResponse == [route |-> "none", rid |-> 0, status |-> 0, body |-> "none",
               verified |-> "not_called", path |-> "none"]

\* The "event" member of an event_callback payload: a dict, JSON null, or absent.
EventTypes == {"message", "app_mention", "reaction_added", None}
Channels == {"C1", None}

RawEvents ==
    [kind : {"dict"}, type : EventTypes, channel : Channels, ts : {"1.0", None}]
        \cup {[kind |-> "null"], [kind |-> "absent"]}

PayloadTypes == {"url_verification", "event_callback", "app_rate_limited", None}

\* Header and body combinations of a request: signed and fresh, signed and
\* 301 seconds old, signed with another key, headers missing, non-ASCII
\* signature header.
Stamp1000 == <<"1", "0", "0", "0">>
Body0 == <<"{", "}">>

RequestAuth ==
    { [timestamp |-> Stamp1000, signature |-> MySignature(SigningSecret, Stamp1000, Body0),
       body |-> Body0, now |-> 1000],
      [timestamp |-> Stamp1000, signature |-> MySignature(SigningSecret, Stamp1000, Body0),
       body |-> Body0, now |-> 1301],
      [timestamp |-> Stamp1000, signature |-> MySignature("another-secret", Stamp1000, Body0),
       body |-> Body0, now |-> 1000],
      [timestamp |-> <<>>, signature |-> NoSignature, body |-> Body0, now |-> 1000],
      [timestamp |-> Stamp1000, signature |-> NonAscii, body |-> Body0, now |-> 1000] }

\* event.get(key) or ""
OrEmpty(v) == IF v = None THEN "" ELSE v

\* A faulty variant of _parse_event: every event type is accepted.
parse_event_anytype(event, rid) ==
    [kind |-> "SlackEvent", rid |-> rid, type |-> event.type,
     channel |-> OrEmpty(event.channel), message_ts |-> OrEmpty(event.ts),
     event_ts |-> OrEmpty(event.ts)]

\* _parse_event for a dict: None unless the type is message or app_mention.
\* event_ts is absent from the payloads tried, so it takes message_ts; rid
\* stands for the identity of the raw_data dict.
parse_event(event, rid) ==
    IF event.type \notin {"message", "app_mention"} THEN NoEvent
    ELSE [kind |-> "SlackEvent", rid |-> rid, type |-> event.type,
          channel |-> OrEmpty(event.channel), message_ts |-> OrEmpty(event.ts),
          event_ts |-> OrEmpty(event.ts)]

\* A faulty variant of the callback: the handler's body runs inside the call.
process_event_inline(started, rid) == Append(started, rid)

\* self.on_event(validated_event) with on_event = lifespan's process_event, an
\* "async def": the call builds a coroutine object that nothing awaits, so
\* handle_event's body does not run.  Returns the events whose handling started.
process_event(started, rid) == started

\* A faulty variant of the test on is_valid: only an exception stops the request.
Accepts_unlessraised(verdict) == verdict \in {"True", "False"}

\* "if not is_valid: raise ValueError": the request goes on only when
\* verify_signature returned True.
Accepts(verdict) == verdict = "True"

\* slack_events' mapping of an exception to an HTTP status.
StatusOf(exc) == IF exc = "ValueError" THEN 401 ELSE 500

\* The handler returns or raises: slack_events sends the response.  path names
\* the branch of handle_slack_event that produced it.
Respond(status, body, verdict, path) ==
    /\ response' = [route |-> "POST", rid |-> req.id, status |-> status, body |-> body,
                    verified |-> verdict, path |-> path]
    /\ rpc' = "idle"
    /\ req' = NoReq
    /\ validated_event' = NoEvent

ConsumerSuspended == cpc \in {"not_started", "get_wait", "exited"}

InitGateway_vars ==
    /\ rpc = "idle"
    /\ req = NoReq
    /\ is_valid = "not_called"
    /\ validated_event = NoEvent
    /\ event_queue = <<>>
    /\ running = FALSE
    /\ cpc = "not_started"
    /\ inflight = NoEvent
    /\ callbacks = <<>>
    /\ processed = <<>>
    /\ handled = <<>>
    /\ response = NoResponse
    /\ nreq = 0

\* POST /events/slack with a payload type, an event and headers out of the
\* given sets: slack_events reads the headers and calls handle_slack_event.
ReceivePostOf(types, events, auths) ==
    /\ rpc = "idle"
    /\ ConsumerSuspended
    /\ nreq < MaxRequests
    /\ \E t \in types, e \in events, a \in auths :
            req' = [id |-> nreq + 1, type |-> t, event |-> e, auth |-> a]
    /\ nreq' = nreq + 1
    /\ rpc' = "received"
    /\ is_valid' = "not_called"
    /\ UNCHANGED <<validated_event, event_queue, running, cpc, inflight, callbacks,
                   processed, handled, response>>
    /\ UNCHANGED <<smVars, vfVars, hdVars, agVars, unVars>>

\* Any request.
ReceivePost == ReceivePostOf(PayloadTypes, RawEvents, RequestAuth)

\* The requests that matter to the consumer: event_callbacks carrying a
\* message or a reaction of channel C1, signed with the right or with
\* another key.
CallbackEvents ==
    {e \in RawEvents : e.kind = "dict" /\ e.type \in {"message", "reaction_added"}
                          /\ e.channel = "C1" /\ e.ts = "1.0"}

CallbackAuth == {a \in RequestAuth : a.now = 1000 /\ Len(a.timestamp) = 4 /\ a.signature # NonAscii}

ReceiveCallback == ReceivePostOf({"event_callback"}, CallbackEvents, CallbackAuth)

\* is_valid = await self.verify_signature(...); if not is_valid: raise ValueError.
\* An exception raised inside verify_signature leaves handle_slack_event too.
VerifyRequest ==
    /\ rpc = "received"
    /\ is_valid' = verify_signature(req.auth.timestamp, req.auth.signature,
                                    req.auth.body, req.auth.now)
    /\ IF Accepts(is_valid')
       THEN /\ rpc' = "verified"
            /\ UNCHANGED <<req, validated_event, response>>
       ELSE IF is_valid' = "False"
       THEN Respond(StatusOf("ValueError"), "Invalid Slack signature", is_valid', "invalid")
       ELSE Respond(StatusOf(is_valid'), "error", is_valid', "verify_raised")
    /\ UNCHANGED <<event_queue, running, cpc, inflight, callbacks, processed, handled, nreq>>
    /\ UNCHANGED <<smVars, vfVars, hdVars, agVars, unVars>>

\* event_type = event_data.get("type") and the three branches on it; for an
\* event_callback, _parse_event runs on event_data.get("event", {}).
Dispatch ==
    /\ rpc = "verified"
    /\ IF req.type = "url_verification"
       THEN Respond(200, "challenge", is_valid, "url_verification")
       ELSE IF req.type # "event_callback"
       THEN Respond(200, "ok", is_valid, "other_type")
       ELSE IF req.event.kind = "null"
       THEN Respond(StatusOf("AttributeError"), "error", is_valid, "parse_raised")
       ELSE LET event == IF req.event.kind = "absent"
                         THEN [kind |-> "dict", type |-> None, channel |-> None, ts |-> None]
                         ELSE req.event
                parsed == parse_event(event, req.id)
            IN  IF parsed = NoEvent
                THEN Respond(200, "ok", is_valid, "dropped")
                ELSE /\ validated_event' = parsed
                     /\ rpc' = "parsed"
                     /\ UNCHANGED <<req, response>>
    /\ UNCHANGED <<is_valid, event_queue, running, cpc, inflight, callbacks, processed,
                   handled, nreq>>
    /\ UNCHANGED <<smVars, vfVars, hdVars, agVars, unVars>>

\* A faulty variant of Queue.put: the item is not kept.
queue_put_lost(q, event) == q

\* asyncio.Queue.put on the unbounded queue: the item goes to the tail.
queue_put(q, event) == Append(q, event)

\* await self._event_queue.put(validated_event)
Enqueue ==
    /\ rpc = "parsed"
    /\ event_queue' = queue_put(event_queue, validated_event)
    /\ rpc' = "enqueued"
    /\ UNCHANGED <<req, is_valid, validated_event, running, cpc, inflight, callbacks,
                   processed, handled, response, nreq>>
    /\ UNCHANGED <<smVars, vfVars, hdVars, agVars, unVars>>

\* if self.on_event: self.on_event(validated_event)
Callback ==
    /\ rpc = "enqueued"
    /\ callbacks' = Append(callbacks, validated_event.rid)
    /\ handled' = process_event(handled, validated_event.rid)
    /\ rpc' = "called"
    /\ UNCHANGED <<req, is_valid, validated_event, event_queue, running, cpc, inflight,
                   processed, response, nreq>>
    /\ UNCHANGED <<smVars, vfVars, hdVars, agVars, unVars>>

\* return {"ok": True} after _process_event_callback has returned
Acknowledge ==
    /\ rpc = "called"
    /\ Respond(200, "ok", is_valid, "enqueued")
    /\ UNCHANGED <<is_valid, event_queue, running, cpc, inflight, callbacks, processed,
                   handled, nreq>>
    /\ UNCHANGED <<smVars, vfVars, hdVars, agVars, unVars>>

\* GET /events/slack: slack_url_verification returns the challenge query
\* parameter; no header is read.
SlackUrlVerification ==
    /\ rpc = "idle"
    /\ ConsumerSuspended
    /\ nreq < MaxRequests
    /\ nreq' = nreq + 1
    /\ response' = [route |-> "GET", rid |-> nreq + 1, status |-> 200, body |-> "challenge",
                    verified |-> "not_called", path |-> "get_route"]
    /\ UNCHANGED <<rpc, req, is_valid, validated_event, event_queue, running, cpc, inflight,
                   callbacks, processed, handled>>
    /\ UNCHANGED <<smVars, vfVars, hdVars, agVars, unVars>>

\* The task made by asyncio.create_task(start_processing()) starts to run:
\* self._running = True, then the first test of the while loop.
StartProcessing ==
    /\ rpc = "idle"
    /\ cpc = "not_started"
    /\ running' = TRUE
    /\ cpc' = "test"
    /\ UNCHANGED <<rpc, req, is_valid, validated_event, event_queue, inflight, callbacks,
                   processed, handled, response, nreq>>
    /\ UNCHANGED <<smVars, vfVars, hdVars, agVars, unVars>>

\* while self._running:
LoopTest ==
    /\ cpc = "test"
    /\ cpc' = IF running THEN "get" ELSE "exited"
    /\ UNCHANGED <<rpc, req, is_valid, validated_event, event_queue, running, inflight,
                   callbacks, processed, handled, response, nreq>>
    /\ UNCHANGED <<smVars, vfVars, hdVars, agVars, unVars>>

\* A faulty variant of Queue.get: the newest item is taken.
queue_get_newest(q) == [event |-> q[Len(q)], rest |-> SubSeq(q, 1, Len(q) - 1)]

\* asyncio.Queue.get on a non-empty queue: the oldest item leaves the queue.
queue_get(q) == [event |-> Head(q), rest |-> Tail(q)]

\* A faulty variant of the processing step: an event taken after
\* stop_processing is discarded.
process_queued_event_ifrunning(done, event) ==
    IF running THEN Append(done, event.rid) ELSE done

\* await self._process_queued_event(event): the event is handed to the
\* processing step, whose body is "pass".  Returns the events handed over.
process_queued_event(done, event) == Append(done, event.rid)

\* event = await self._event_queue.get(): takes the head, or suspends while
\* the queue is empty.
QueueGet ==
    /\ cpc = "get"
    /\ IF event_queue = <<>>
       THEN /\ cpc' = "get_wait"
            /\ UNCHANGED <<event_queue, inflight>>
       ELSE /\ inflight' = queue_get(event_queue).event
            /\ event_queue' = queue_get(event_queue).rest
            /\ cpc' = "process"
    /\ UNCHANGED <<rpc, req, is_valid, validated_event, running, callbacks, processed,
                   handled, response, nreq>>
    /\ UNCHANGED <<smVars, vfVars, hdVars, agVars, unVars>>

\* A faulty variant of getter_woken: a put wakes nobody.
getter_woken_never(q) == FALSE

\* Queue.put wakes the task suspended in get(): it is ready to run as soon
\* as the queue holds an item.
getter_woken(q) == q # <<>>

\* The suspended get() is woken by a put and returns the head of the queue.
QueueGetResume ==
    /\ cpc = "get_wait"
    /\ rpc = "idle"
    /\ getter_woken(event_queue)
    /\ inflight' = queue_get(event_queue).event
    /\ event_queue' = queue_get(event_queue).rest
    /\ cpc' = "process"
    /\ UNCHANGED <<rpc, req, is_valid, validated_event, running, callbacks, processed,
                   handled, response, nreq>>
    /\ UNCHANGED <<smVars, vfVars, hdVars, agVars, unVars>>

\* await self._process_queued_event(event): the method's body is "pass".
ProcessQueuedEvent ==
    /\ cpc = "process"
    /\ processed' = process_queued_event(processed, inflight)
    /\ inflight' = NoEvent
    /\ cpc' = "test"
    /\ UNCHANGED <<rpc, req, is_valid, validated_event, event_queue, running, callbacks,
                   handled, response, nreq>>
    /\ UNCHANGED <<smVars, vfVars, hdVars, agVars, unVars>>

\* lifespan's shutdown: await app_state.ingestion_service.stop_processing()
StopProcessing ==
    /\ rpc = "idle"
    /\ ConsumerSuspended
    /\ cpc # "not_started"
    /\ running
    /\ running' = FALSE
    /\ UNCHANGED <<rpc, req, is_valid, validated_event, event_queue, cpc, inflight,
                   callbacks, processed, handled, response, nreq>>
    /\ UNCHANGED <<smVars, vfVars, hdVars, agVars, unVars>>

\* ---------------------------------------------------------------------------
\* handle_event (app/main.py lines 95-181) over the tables it writes
\* (app/services/conversation_memory.py, app/models/database.py).
\* handle_event has no await inside, so one call is one step.
\* ---------------------------------------------------------------------------
IntentType == {"question", "bug_report", "update", "resolution"}

\* UnderstandingAgent.analyze_message returns some signal; only intent and
\* needs_owner are read by the handler.
Signals == [intent : IntentType, needs_owner : BOOLEAN]

\* The SlackEvent fields the handler reads.  iso tells whether event_ts is a
\* string datetime.fromisoformat accepts (a Slack "1355517523.000005" is not).
HdChannels == {"C1"}
ThreadTs == {None, "", "T1"}
MessageTs == {"1.0", "2.0"}
HandledEvents == [channel : HdChannels, thread_ts : ThreadTs, message_ts : MessageTs,
                  iso : BOOLEAN]

\* A faulty variant of determine_state_transition: an update that needs an
\* owner proposes owner_assigned.
determine_state_transition_assigns(intent, needs_owner) ==
    IF intent = "question"
    THEN (IF needs_owner THEN QUESTION_RAISED ELSE CLARIFYING)
    ELSE IF intent = "resolution" THEN RESOLVED
    ELSE IF intent = "bug_report" THEN IN_PROGRESS
    ELSE IF intent = "update" /\ needs_owner THEN OWNER_ASSIGNED
    ELSE IDLE

\* A faulty variant of determine_state_transition: a resolution proposes idle.
determine_state_transition_noresolve(intent, needs_owner) ==
    IF intent = "question"
    THEN (IF needs_owner THEN QUESTION_RAISED ELSE CLARIFYING)
    ELSE IF intent = "bug_report" THEN IN_PROGRESS
    ELSE IDLE

\* determine_state_transition(state_machine, signal, trigger): the state
\* machine argument is not read.
determine_state_transition(intent, needs_owner) ==
    IF intent = "question"
    THEN (IF needs_owner THEN QUESTION_RAISED ELSE CLARIFYING)
    ELSE IF intent = "resolution" THEN RESOLVED
    ELSE IF intent = "bug_report" THEN IN_PROGRESS
    ELSE IDLE

\* The filter of get_or_create_conversation: "if thread_ts:" compares the
\* column with the argument, otherwise asks for thread_ts IS NULL.
ConversationMatches(row, channel, thread_ts) ==
    /\ row.slack_channel_id = channel
    /\ IF thread_ts \notin {None, ""} THEN row.thread_ts = thread_ts ELSE row.thread_ts = None

\* query.first(): the position of the first matching row, 0 when there is none.
FindConversation(table, channel, thread_ts) ==
    IF \E i \in 1..Len(table) : ConversationMatches(table[i], channel, thread_ts)
    THEN CHOOSE i \in 1..Len(table) :
            /\ ConversationMatches(table[i], channel, thread_ts)
            /\ \A j \in 1..(i - 1) : ~ConversationMatches(table[j], channel, thread_ts)
    ELSE 0

\* Conversation(...) as get_or_create_conversation builds it; current_state
\* takes the column default IDLE at insert.
NewConversation(n, channel, thread_ts) ==
    [id |-> n, slack_channel_id |-> channel, thread_ts |-> thread_ts, current_state |-> IDLE]

\* get_or_create_conversation: the table after the call.
get_or_create_conversation(table, channel, thread_ts) ==
    IF FindConversation(table, channel, thread_ts) # 0 THEN table
    ELSE Append(table, NewConversation(Len(table) + 1, channel, thread_ts))

\* A faulty variant of DuplicateMessage: the column carries no unique
\* constraint.
DuplicateMessage_notunique(table, slack_message_ts) == FALSE

\* messages.slack_message_ts is unique: the commit of add_message fails with
\* IntegrityError when the value is already stored.
DuplicateMessage(table, slack_message_ts) ==
    \E i \in 1..Len(table) : table[i].slack_message_ts = slack_message_ts

\* update_conversation_state: the row's current_state is overwritten.
update_conversation_state(table, i, new_state) ==
    [table EXCEPT ![i].current_state = new_state]

\* A faulty variant of record_state_transition: the row is built, added and
\* committed.
record_state_transition_stored(table, conversation_id, from_state, to_state, trigger) ==
    [raised |-> "none",
     table |-> Append(table, [conversation_id |-> conversation_id, from_state |-> from_state,
                              to_state |-> to_state, trigger |-> trigger])]

\* record_state_transition passes trans_metadata= to the StateTransition
\* model, whose column is transition_metadata: the constructor raises
\* TypeError and no row is added.
record_state_transition(table, conversation_id, from_state, to_state, trigger) ==
    [raised |-> "TypeError", table |-> table]

NoCall == [outcome |-> "none"]

InitHandle_vars ==
    /\ conversations = <<>>
    /\ messages = <<>>
    /\ state_transitions = <<>>
    /\ hd_last = NoCall
    /\ hd_count = 0

\* handle_event(event) with the signal the understanding agent returned.
\* Every exception is caught by the outer "except Exception" and logged.
handle_event(event, signal) ==
    LET convs1 == get_or_create_conversation(conversations, event.channel, event.thread_ts)
        found == FindConversation(conversations, event.channel, event.thread_ts)
        \* the row returned: the one found, or the one just added
        i == IF found # 0 THEN found ELSE Len(convs1)
        state_str == convs1[i].current_state
        new_state == determine_state_transition(signal.intent, signal.needs_owner)
        call == [event |-> event, conversation |-> i, from_state |-> state_str,
                 proposed |-> new_state, created |-> Len(convs1) > Len(conversations)]
    IN  IF ~event.iso
        THEN \* datetime.fromisoformat(event.event_ts) raises ValueError
             /\ conversations' = convs1
             /\ hd_last' = [call EXCEPT !.proposed = None] @@ [outcome |-> "ValueError"]
             /\ UNCHANGED <<messages, state_transitions>>
        ELSE IF DuplicateMessage(messages, event.message_ts)
        THEN \* add_message: db.commit() raises IntegrityError
             /\ conversations' = convs1
             /\ hd_last' = [call EXCEPT !.proposed = None] @@ [outcome |-> "IntegrityError"]
             /\ UNCHANGED <<messages, state_transitions>>
        ELSE LET recorded == record_state_transition(state_transitions, i, state_str,
                                                     new_state, signal.intent)
             IN  /\ messages' = Append(messages,
                        [conversation_id |-> i, slack_message_ts |-> event.message_ts,
                         extracted_intent |-> signal.intent,
                         needs_owner |-> signal.needs_owner])
                 /\ conversations' = update_conversation_state(convs1, i, new_state)
                 /\ state_transitions' = recorded.table
                 /\ hd_last' = call @@ [outcome |-> recorded.raised]

HandleEvent ==
    /\ hd_count < MaxHandled
    /\ hd_count' = hd_count + 1
    /\ \E event \in HandledEvents, signal \in Signals : handle_event(event, signal)
    /\ UNCHANGED <<smVars, vfVars, gwVars, agVars, unVars>>

\* ---------------------------------------------------------------------------
\* CoordinationAgent (app/agents/coordinator.py)
\*
\* Times are whole seconds.  A severity is counted in units of 1/SeverityOne,
\* so that hours/72 with hours = seconds/3600 is the number of seconds itself
\* and 0.7, 0.6 and 1.0 are whole numbers of units.
\* ---------------------------------------------------------------------------
Hour == 3600

\* 1.0 as a severity: hours_since / 72 reaches it at 72 * 3600 seconds.
SeverityOne == 72 * Hour

\* n tenths as a severity
Tenths(n) == (n * SeverityOne) \div 10

THRESHOLDS ==
    [ownership_timeout_hours |-> 24, clarification_max_loops |-> 3,
     response_timeout_hours |-> 4, resolution_stall_hours |-> 48]

NoDecision == [action |-> "None", priority |-> "None"]
EvPending == [action |-> "pending", priority |-> "pending"]

CoordinationDecision(action, priority) == [action |-> action, priority |-> priority]

\* max(gap_severities) of a non-empty list
Max(seq) == CHOOSE m \in Range(seq) : \A x \in Range(seq) : x <= m

\* Rule 1: question_raised, owner needed, time_in_state above the ownership
\* timeout.
prompt_ownership_due(a) ==
    /\ a.conversation_state = QUESTION_RAISED
    /\ a.signal_needs_owner
    /\ a.time_in_state > THRESHOLDS.ownership_timeout_hours * Hour

\* Rule 2: question_raised or clarifying, clarification_count at the limit.
suggest_context_due(a) ==
    /\ a.conversation_state \in {QUESTION_RAISED, CLARIFYING}
    /\ a.clarification_count >= THRESHOLDS.clarification_max_loops

\* A faulty variant of rule 3: the response timeout itself already fires.
nudge_response_due_inclusive(a) ==
    /\ a.signal_intent = "question"
    /\ a.now - a.last_activity_at >= THRESHOLDS.response_timeout_hours * Hour

\* Rule 3: intent question and hours_since_activity above the response
\* timeout; (now - last_activity_at).total_seconds() / 3600 > 4 is the same as
\* more than 4 * 3600 seconds.
nudge_response_due(a) ==
    /\ a.signal_intent = "question"
    /\ a.now - a.last_activity_at > THRESHOLDS.response_timeout_hours * Hour

\* Rule 4: a non-empty severity list whose maximum is above 0.7.
flag_gap_due(a) ==
    /\ a.gap_severities # <<>>
    /\ Max(a.gap_severities) > Tenths(7)

\* A faulty variant of evaluate: the clarification rule is tried first.
evaluate_clarification_first(a) ==
    IF suggest_context_due(a) THEN CoordinationDecision("suggest_context", "medium")
    ELSE IF prompt_ownership_due(a) THEN CoordinationDecision("prompt_ownership", "high")
    ELSE IF nudge_response_due(a) THEN CoordinationDecision("nudge_response", "medium")
    ELSE IF flag_gap_due(a) THEN CoordinationDecision("flag_gap", "high")
    ELSE NoDecision

\* evaluate: the four rules in the order of the code, the first that holds
\* returns; None otherwise.
evaluate(a) ==
    IF prompt_ownership_due(a) THEN CoordinationDecision("prompt_ownership", "high")
    ELSE IF suggest_context_due(a) THEN CoordinationDecision("suggest_context", "medium")
    ELSE IF nudge_response_due(a) THEN CoordinationDecision("nudge_response", "medium")
    ELSE IF flag_gap_due(a) THEN CoordinationDecision("flag_gap", "high")
    ELSE NoDecision

\* Arguments tried: values on both sides of every threshold and at it.
CoordNow == 100 * Hour
TimesInState == {0, 24 * Hour, 24 * Hour + 1}
ClarificationCounts == {0, 2, 3, 4}
LastActivityTimes == {CoordNow, CoordNow - 4 * Hour, CoordNow - 4 * Hour - 1, CoordNow - 25 * Hour}
GapSeverityLists ==
    { <<>>, <<Tenths(7)>>, <<Tenths(7) + 1>>, <<Tenths(6), SeverityOne>>,
      <<Tenths(8), Tenths(1)>> }

EvaluateInputs ==
    [conversation_state : ConversationState, time_in_state : TimesInState,
     signal_intent : IntentType, signal_needs_owner : BOOLEAN,
     gap_severities : GapSeverityLists, clarification_count : ClarificationCounts,
     last_activity_at : LastActivityTimes, now : {CoordNow}]

InitCoord_vars ==
    /\ ev_in \in EvaluateInputs
    /\ ev_out = EvPending
    /\ decision_history = <<>>

\* One call of evaluate on ev_in; decision_history is not written.
Evaluate ==
    /\ ev_out = EvPending
    /\ ev_out' = evaluate(ev_in)
    /\ UNCHANGED <<ev_in, decision_history, gap_in, gap_out, communication_gaps, siVars>>
    /\ UNCHANGED <<smVars, vfVars, gwVars, hdVars, unVars>>

\* conversation_metrics as should_intervene reads it: each of the two keys
\* may be absent from the dict.
MetricStates == ConversationState \cup {"archived"}
MetricTimes ==
    {0, 1, 24 * Hour - 1, 24 * Hour, 24 * Hour + 1, 48 * Hour - 1, 48 * Hour,
     48 * Hour + 1, 100 * Hour}

ShouldInterveneInputs ==
    [has_state : BOOLEAN, current_state : MetricStates,
     has_time : BOOLEAN, time_in_state_seconds : MetricTimes]

\* conversation_metrics.get("current_state", "idle")
metrics_state(m) == IF m.has_state THEN m.current_state ELSE IDLE

\* conversation_metrics.get("time_in_state_seconds", 0)
metrics_time(m) == IF m.has_time THEN m.time_in_state_seconds ELSE 0

\* A faulty variant of should_intervene: the thresholds are inclusive.
should_intervene_inclusive(m) ==
    IF metrics_state(m) = "question_raised" /\ metrics_time(m) >= 86400 THEN "True"
    ELSE IF metrics_state(m) = "in_progress" /\ metrics_time(m) >= 172800 THEN "True"
    ELSE "False"

\* should_intervene(conversation_metrics)
should_intervene(m) ==
    IF metrics_state(m) = "question_raised" /\ metrics_time(m) > 86400 THEN "True"
    ELSE IF metrics_state(m) = "in_progress" /\ metrics_time(m) > 172800 THEN "True"
    ELSE "False"

SiPending == "pending"

InitIntervene_vars ==
    /\ si_in \in ShouldInterveneInputs
    /\ si_out = SiPending

\* One call of should_intervene on si_in.
ShouldIntervene ==
    /\ si_out = SiPending
    /\ si_out' = should_intervene(si_in)
    /\ UNCHANGED <<si_in, ev_in, ev_out, decision_history, gap_in, gap_out,
                   communication_gaps>>
    /\ UNCHANGED <<smVars, vfVars, gwVars, hdVars, unVars>>

\* ---------------------------------------------------------------------------
\* AnalyticsEngine.detect_gaps (app/services/analytics.py lines 194-272)
\* ---------------------------------------------------------------------------
NoConversation == "absent"

Min(a, b) == IF a <= b THEN a ELSE b

\* A faulty variant of the severity: hours_since / 72 without the cap.
ownership_severity_uncapped(seconds) == seconds

\* min(1.0, time_since_question / 72) for time_since_question = seconds / 3600
ownership_severity(seconds) == Min(SeverityOne, seconds)

\* A faulty variant of time_since_question: the time is counted from the
\* oldest transition.
time_since_question_oldest(g) ==
    IF g.transitions = <<>> THEN 0
    ELSE g.now - g.transitions[1].timestamp

\* (now - transitions[-1].timestamp) in seconds if transitions else 0
time_since_question(g) ==
    IF g.transitions = <<>> THEN 0
    ELSE g.now - g.transitions[Len(g.transitions)].timestamp

\* The ownership gap: current_state question_raised, no transition to
\* owner_assigned, and more than 24 hours since the last transition.
ownership_gaps(g) ==
    IF /\ g.conversation = QUESTION_RAISED
       /\ ~ \E i \in 1..Len(g.transitions) : g.transitions[i].to_state = OWNER_ASSIGNED
       /\ time_since_question(g) > 24 * Hour
    THEN << [gap_type |-> "ownership", severity |-> ownership_severity(time_since_question(g)),
             detected_at |-> g.now] >>
    ELSE <<>>

\* The slice bound of messages[:10].
ScanWindow == 10

\* msg.extracted_intent and "question" in msg.extracted_intent.value
IsQuestion(msg) == msg.extracted_intent = "question"

\* The nested loops: pairs of question messages with equal content[:100], the
\* first of the pair among messages[:10].
similar_questions(g) ==
    Cardinality({ pair \in (1..Len(g.messages)) \X (1..Len(g.messages)) :
                    /\ pair[1] <= ScanWindow
                    /\ pair[1] < pair[2]
                    /\ IsQuestion(g.messages[pair[1]])
                    /\ IsQuestion(g.messages[pair[2]])
                    /\ g.messages[pair[1]].content = g.messages[pair[2]].content })

context_gaps(g) ==
    IF similar_questions(g) >= 2
    THEN << [gap_type |-> "context", severity |-> Tenths(6), detected_at |-> g.now] >>
    ELSE <<>>

\* The list detect_gaps returns; [] when the conversation does not exist.
detect_gaps(g) ==
    IF g.conversation = NoConversation THEN <<>>
    ELSE ownership_gaps(g) \o context_gaps(g)

\* Rows tried.  Transitions come ordered by timestamp; the last one is at
\* second 0 or 10, and the clock is read on both sides of 24 and 72 hours.
GapTransitionLists ==
    { <<>>,
      << [to_state |-> QUESTION_RAISED, timestamp |-> 0] >>,
      << [to_state |-> OWNER_ASSIGNED, timestamp |-> 0],
         [to_state |-> QUESTION_RAISED, timestamp |-> 10] >>,
      << [to_state |-> QUESTION_RAISED, timestamp |-> 0],
         [to_state |-> CLARIFYING, timestamp |-> 5],
         [to_state |-> QUESTION_RAISED, timestamp |-> 10] >> }

GapNows ==
    {10, 24 * Hour, 24 * Hour + 1, 24 * Hour + 10, 24 * Hour + 11, 72 * Hour - 1, 72 * Hour,
     72 * Hour + 10, 72 * Hour + 11, 100 * Hour}

GapMessageRows == [extracted_intent : {"question", "update"}, content : {"a", "b"}]

MaxMessages == 3

\* Conversations longer than the slice: ScanWindow + 2 messages ordered by
\* timestamp, the same question at some of the two oldest and the three
\* newest places and updates everywhere else.
LongMessageLists ==
    { [i \in 1..(ScanWindow + 2) |->
            IF i \in asked THEN [extracted_intent |-> "question", content |-> "a"]
            ELSE [extracted_intent |-> "update", content |-> "b"]] :
        asked \in SUBSET {1, 2, ScanWindow, ScanWindow + 1, ScanWindow + 2} }

GapMessageLists ==
    UNION { [1..n -> GapMessageRows] : n \in 0..MaxMessages } \cup LongMessageLists

DetectGapsInputs ==
    [conversation : {NoConversation, IDLE, QUESTION_RAISED, OWNER_ASSIGNED},
     transitions : GapTransitionLists, messages : GapMessageLists, now : GapNows]

GapPending == << [gap_type |-> "pending", severity |-> 0, detected_at |-> 0] >>

InitGaps_vars ==
    /\ gap_in \in DetectGapsInputs
    /\ gap_out = GapPending
    /\ communication_gaps = <<>>

\* A faulty variant of persist_gaps: only the first gap found is stored.
persist_gaps_firstonly(table, gaps) ==
    IF gaps = <<>> THEN table ELSE Append(table, Head(gaps))

\* "if gaps:" one CommunicationGap row is added per gap found, then one
\* commit; nothing is written for an empty list.
persist_gaps(table, gaps) == table \o gaps

\* One call of detect_gaps on gap_in: the gaps found are added to the table
\* and returned.  No row that was read is assigned to.
DetectGaps ==
    /\ gap_out = GapPending
    /\ gap_out' = detect_gaps(gap_in)
    /\ communication_gaps' = persist_gaps(communication_gaps, detect_gaps(gap_in))
    /\ UNCHANGED <<gap_in, ev_in, ev_out, decision_history, siVars>>
    /\ UNCHANGED <<smVars, vfVars, gwVars, hdVars, unVars>>

\* ---------------------------------------------------------------------------
\* handle_event (app/main.py lines 95-161) statement by statement, for calls
\* that run as tasks of one asyncio event loop on events of one conversation.
\* A task keeps the loop until it finishes or reaches an await that suspends.
\* ---------------------------------------------------------------------------
MaxUnits == 2

Units == 1..MaxUnits

NoSignal == [intent |-> "None", needs_owner |-> FALSE]

\* A faulty variant of Suspends: reading the conversation is awaited and
\* gives up the loop.
Suspends_atread(stage) == stage = "get_or_create_conversation"

\* Whether a statement of handle_event gives up the event loop: its body
\* holds no await expression, every call in it is synchronous.
Suspends(stage) == FALSE

\* The statement at unit_pc[u] has run as stage: it is added to the trace and
\* the call goes to next_pc; the loop is free again when the call has ended
\* or the statement suspended.
Advance(u, stage, next_pc) ==
    /\ unit_trace' = [unit_trace EXCEPT ![u] = Append(@, stage)]
    /\ unit_pc' = [unit_pc EXCEPT ![u] = next_pc]
    /\ loop_task' = IF next_pc = "done" \/ Suspends(stage) THEN 0 ELSE u

\* A faulty variant of AfterException: the call is run again from its first
\* statement.
AfterException_retry == "get_or_create"

\* except Exception as e: logger.error(...), then finally: db.close(): the
\* exception is logged and the call returns; nothing runs the event again.
AfterException == "done"

InitUnits_vars ==
    /\ unit_pc = [u \in Units |-> "created"]
    /\ unit_read = [u \in Units |-> None]
    /\ unit_signal = [u \in Units |-> NoSignal]
    /\ unit_trace = [u \in Units |-> <<>>]
    /\ loop_task = 0
    /\ conv_state = NoConversation

\* The event loop picks a task that has not ended: a new call starts at
\* its first statement, a suspended one goes on where it stood.
Schedule ==
    /\ loop_task = 0
    /\ \E u \in Units :
        /\ unit_pc[u] # "done"
        /\ loop_task' = u
        /\ unit_pc' = [unit_pc EXCEPT ![u] = IF @ = "created" THEN "get_or_create" ELSE @]
    /\ UNCHANGED <<unit_read, unit_signal, unit_trace, conv_state>>
    /\ UNCHANGED <<smVars, vfVars, gwVars, hdVars, agVars>>

\* conversation = get_or_create_conversation(...): the row is created with
\* the default state idle and committed when it is missing; the returned dict
\* carries current_state, which state_str reads later.
UnitGetOrCreate ==
    /\ \E u \in Units :
        /\ loop_task = u
        /\ unit_pc[u] = "get_or_create"
        /\ conv_state' = IF conv_state = NoConversation THEN IDLE ELSE conv_state
        /\ unit_read' = [unit_read EXCEPT ![u] = conv_state']
        /\ Advance(u, "get_or_create_conversation", "analyze")
    /\ UNCHANGED unit_signal
    /\ UNCHANGED <<smVars, vfVars, gwVars, hdVars, agVars>>

\* signal = understanding.analyze_message(event.text)
UnitAnalyze ==
    /\ \E u \in Units, signal \in Signals :
        /\ loop_task = u
        /\ unit_pc[u] = "analyze"
        /\ unit_signal' = [unit_signal EXCEPT ![u] = signal]
        /\ Advance(u, "analyze_message", "add_message")
    /\ UNCHANGED <<unit_read, conv_state>>
    /\ UNCHANGED <<smVars, vfVars, gwVars, hdVars, agVars>>

\* conversation_service.add_message(... datetime.fromisoformat(event.event_ts)
\* ...): an exception (ValueError, IntegrityError) ends the call in the outer
\* except clause.
UnitAddMessage ==
    /\ \E u \in Units, raised \in BOOLEAN :
        /\ loop_task = u
        /\ unit_pc[u] = "add_message"
        /\ Advance(u, "add_message", IF raised THEN AfterException ELSE "determine")
    /\ UNCHANGED <<unit_read, unit_signal, conv_state>>
    /\ UNCHANGED <<smVars, vfVars, gwVars, hdVars, agVars>>

\* state_machine = BehaviorStateMachine() set to state_str, then
\* new_state = determine_state_transition(state_machine, signal, trigger)
UnitDetermine ==
    /\ \E u \in Units :
        /\ loop_task = u
        /\ unit_pc[u] = "determine"
        /\ Advance(u, "determine_state_transition", "update")
    /\ UNCHANGED <<unit_read, unit_signal, conv_state>>
    /\ UNCHANGED <<smVars, vfVars, gwVars, hdVars, agVars>>

\* conversation_service.update_conversation_state(id, new_state.value): the
\* row is overwritten and committed.
UnitUpdate ==
    /\ \E u \in Units :
        /\ loop_task = u
        /\ unit_pc[u] = "update"
        /\ conv_state' = determine_state_transition(unit_signal[u].intent,
                                                    unit_signal[u].needs_owner)
        /\ Advance(u, "update_conversation_state", "record")
    /\ UNCHANGED <<unit_read, unit_signal>>
    /\ UNCHANGED <<smVars, vfVars, gwVars, hdVars, agVars>>

\* conversation_service.record_state_transition(...) raises TypeError; the
\* outer except clause logs it and the call ends.
UnitRecord ==
    /\ \E u \in Units :
        /\ loop_task = u
        /\ unit_pc[u] = "record"
        /\ Advance(u, "record_state_transition", AfterException)
    /\ UNCHANGED <<unit_read, unit_signal, conv_state>>
    /\ UNCHANGED <<smVars, vfVars, gwVars, hdVars, agVars>>

\* ---------------------------------------------------------------------------
\* Specifications
\* ---------------------------------------------------------------------------
\* The state after construction: a new state machine, a new ingestion
\* service, empty tables; no verifier input under study.
InitIntervene_fixed ==
    /\ si_in = CHOOSE x \in ShouldInterveneInputs : TRUE
    /\ si_out = SiPending

InitAgents_fixed ==
    /\ InitIntervene_fixed
    /\ ev_in = CHOOSE x \in EvaluateInputs : TRUE
    /\ ev_out = EvPending
    /\ decision_history = <<>>
    /\ gap_in = CHOOSE x \in DetectGapsInputs : TRUE
    /\ gap_out = GapPending
    /\ communication_gaps = <<>>

Init ==
    /\ InitSM_vars
    /\ vf_in = CHOOSE x \in VerifyInputs : TRUE
    /\ vf_out = VfPending
    /\ InitGateway_vars
    /\ InitHandle_vars
    /\ InitUnits_vars
    /\ InitAgents_fixed

\* The same with the verifiers' inputs drawn from VerifyInputs.
InitVerify ==
    /\ InitSM_vars /\ InitGateway_vars /\ InitHandle_vars /\ InitUnits_vars /\ InitAgents_fixed
    /\ InitVerify_vars

\* The same with evaluate's arguments drawn from EvaluateInputs and the rows
\* detect_gaps reads drawn from DetectGapsInputs.
InitAgents ==
    /\ InitSM_vars
    /\ vf_in = CHOOSE x \in VerifyInputs : TRUE
    /\ vf_out = VfPending
    /\ InitGateway_vars
    /\ InitHandle_vars
    /\ InitUnits_vars
    /\ gap_in = CHOOSE x \in DetectGapsInputs : TRUE
    /\ gap_out = GapPending
    /\ communication_gaps = <<>>
    /\ InitIntervene_fixed
    /\ InitCoord_vars

InitGaps ==
    /\ InitSM_vars
    /\ vf_in = CHOOSE x \in VerifyInputs : TRUE
    /\ vf_out = VfPending
    /\ InitGateway_vars
    /\ InitHandle_vars
    /\ InitUnits_vars
    /\ ev_in = CHOOSE x \in EvaluateInputs : TRUE
    /\ ev_out = EvPending
    /\ decision_history = <<>>
    /\ InitIntervene_fixed
    /\ InitGaps_vars

\* The same with should_intervene's argument drawn from
\* ShouldInterveneInputs.
InitIntervene ==
    /\ InitSM_vars
    /\ vf_in = CHOOSE x \in VerifyInputs : TRUE
    /\ vf_out = VfPending
    /\ InitGateway_vars
    /\ InitHandle_vars
    /\ InitUnits_vars
    /\ ev_in = CHOOSE x \in EvaluateInputs : TRUE
    /\ ev_out = EvPending
    /\ decision_history = <<>>
    /\ gap_in = CHOOSE x \in DetectGapsInputs : TRUE
    /\ gap_out = GapPending
    /\ communication_gaps = <<>>
    /\ InitIntervene_vars

NextSM == TransitionTo \/ CanTransition \/ GetTimeInState \/ GetStateHistory \/ TickSM

SpecSM == Init /\ [][NextSM]_vars

NextVerify == Verify

SpecVerify == InitVerify /\ [][NextVerify]_vars

NextGateway ==
    \/ ReceivePost \/ VerifyRequest \/ Dispatch \/ Enqueue \/ Callback \/ Acknowledge
    \/ SlackUrlVerification
    \/ StartProcessing \/ LoopTest \/ QueueGet \/ QueueGetResume \/ ProcessQueuedEvent
    \/ StopProcessing

SpecGateway == Init /\ [][NextGateway]_vars

\* The steps of the start_processing task, and the steps of a request once
\* it has been received.
ConsumerStep == StartProcessing \/ LoopTest \/ QueueGet \/ QueueGetResume \/ ProcessQueuedEvent

RequestStep == VerifyRequest \/ Dispatch \/ Enqueue \/ Callback \/ Acknowledge

NextConsumer == ReceiveCallback \/ RequestStep \/ ConsumerStep \/ StopProcessing

\* The gateway under event_callback requests only.  The event loop runs
\* every task that is ready: the consumer task goes on whenever it can, and a
\* request that was received is handled to its end.  Requests arrive and
\* shutdown is asked for when the environment chooses.
SpecGatewayFair ==
    Init /\ [][NextConsumer]_vars /\ WF_vars(ConsumerStep) /\ WF_vars(RequestStep)

NextHandle == HandleEvent

SpecHandle == Init /\ [][NextHandle]_vars

NextCoord == Evaluate

SpecCoord == InitAgents /\ [][NextCoord]_vars

NextGaps == DetectGaps

SpecGaps == InitGaps /\ [][NextGaps]_vars

NextIntervene == ShouldIntervene

SpecIntervene == InitIntervene /\ [][NextIntervene]_vars

NextUnits ==
    \/ Schedule \/ UnitGetOrCreate \/ UnitAnalyze \/ UnitAddMessage \/ UnitDetermine
    \/ UnitUpdate \/ UnitRecord

SpecUnits == Init /\ [][NextUnits]_vars

\* The event loop runs a task that is ready: it does not stay idle while a
\* call has not ended.
SpecUnitsFair == SpecUnits /\ WF_vars(NextUnits)

\* ---------------------------------------------------------------------------
\* Properties
\* ---------------------------------------------------------------------------
\* C1: a transition_to call whose (current state, target) pair is not in the
\* legal table, the target equal to the current state included, returns None
\* and leaves current_state, transitions and state_timestamps as they were.
C1_IllegalTransitionRejected ==
    [][ (sm_op'.name = "transition_to" /\ sm_op'.arg \notin VALID_TRANSITIONS[current_state])
            => /\ sm_ret' = RetNone
               /\ current_state' = current_state
               /\ transitions' = transitions
               /\ state_timestamps' = state_timestamps ]_vars

\* A transition to the current state itself was just rejected, on a machine
\* that has already moved.
C1_Witness ==
    /\ sm_op = [name |-> "transition_to", arg |-> current_state]
    /\ sm_ret = RetNone
    /\ transitions # <<>>

\* C3: a transition_to call whose (current state, target) pair is in the legal
\* table returns a StateTransition from the state before the call to the
\* target, appends exactly that record, makes the target the current state and
\* records an entry timestamp for it, read no earlier than the record's own.
C3_LegalTransitionApplied ==
    [][ (sm_op'.name = "transition_to" /\ sm_op'.arg \in VALID_TRANSITIONS[current_state])
            => /\ sm_ret'.kind = "StateTransition"
               /\ sm_ret'.value.from_state = current_state
               /\ sm_ret'.value.to_state = sm_op'.arg
               /\ transitions' = Append(transitions, sm_ret'.value)
               /\ current_state' = sm_op'.arg
               /\ state_timestamps'[sm_op'.arg] # NoTime
               /\ state_timestamps'[sm_op'.arg] >= sm_ret'.value.timestamp
               /\ \A s \in ConversationState \ {sm_op'.arg} :
                        state_timestamps'[s] = state_timestamps[s] ]_vars

\* The first transition of test_question_raised_transition has just happened.
C3_Witness ==
    /\ sm_op = [name |-> "transition_to", arg |-> QUESTION_RAISED]
    /\ sm_ret.kind = "StateTransition"
    /\ sm_ret.value.from_state = IDLE
    /\ current_state = QUESTION_RAISED
    /\ Len(transitions) = 1

\* C4: a new machine is idle with no transitions; after any sequence of
\* transition_to calls the list is as long as the number of calls that
\* succeeded, its first record starts at idle and every later record starts
\* where the one before it ended.
C4_TransitionAudit ==
    /\ sm_op.name = "__init__" => (current_state = IDLE /\ transitions = <<>>)
    /\ Len(transitions) = sm_successes
    /\ transitions # <<>> => transitions[1].from_state = IDLE
    /\ \A i \in 2..Len(transitions) :
            transitions[i].from_state = transitions[i - 1].to_state
    /\ transitions # <<>> => transitions[Len(transitions)].to_state = current_state

\* Two transitions succeeded and a third call was then rejected.
C4_Witness ==
    /\ Len(transitions) >= 2
    /\ sm_successes = Len(transitions)
    /\ sm_op.name = "transition_to"
    /\ sm_ret = RetNone

\* The signature the gateway's verifier computes for the inputs under study.
ExpectedSignature == MySignature(SigningSecret, vf_in.timestamp, vf_in.body)

Age == vf_in.now - IntOf(vf_in.timestamp)

\* C5: for a numeric timestamp more than 300 seconds away from the current
\* time, on either side, verify_signature returns False whatever the signature
\* (and SecurityManager's verifier refuses with its 401 exception); at exactly
\* 300 seconds a request carrying the expected signature is accepted.
C5_StaleRejected ==
    (vf_out # VfPending /\ IsIntLiteral(vf_in.timestamp)) =>
        /\ (Age > 300 \/ Age < 0 - 300) =>
                (vf_out.gateway = "False" /\ vf_out.security = "HTTPException")
        /\ ((Age = 300 \/ Age = 0 - 300) /\ vf_in.signature = ExpectedSignature) =>
                (vf_out.gateway = "True" /\ vf_out.security = "True")

\* A request with the expected signature, 301 seconds old, was rejected.
C5_Witness ==
    /\ vf_out # VfPending
    /\ IsIntLiteral(vf_in.timestamp)
    /\ Age = 301
    /\ vf_in.signature = ExpectedSignature
    /\ vf_out.gateway = "False"

\* C6: the verifier never throws: every input, a missing, empty or
\* non-numeric timestamp header included, yields True or False as a value.
C6_VerifyNeverThrows ==
    vf_out.gateway \in {"pending", "True", "False"}

\* What the request path has put on the queue or handed downstream.
Downstream == <<event_queue, callbacks, handled>>

\* A request is past verification, or was answered 200, only with a True
\* verdict of verify_signature.
AcceptedOnlyVerified ==
    /\ rpc \in {"verified", "parsed", "enqueued", "called"} => is_valid = "True"
    /\ (response.route = "POST" /\ response.status = 200) => response.verified = "True"

\* C7: when verify_signature returns False for a request, the request ends in
\* the authentication failure (ValueError, answered 401) with the queue, the
\* callbacks and the consumer untouched; a request goes past verification, is
\* enqueued, handed to the callback or answered ok only with a True verdict.
C7_RejectedUnverified ==
    [][ /\ (rpc = "received" /\ is_valid' = "False")
            => /\ rpc' = "idle"
               /\ response' = [route |-> "POST", rid |-> req.id, status |-> 401,
                               body |-> "Invalid Slack signature", verified |-> "False",
                               path |-> "invalid"]
               /\ Downstream' = Downstream
               /\ <<cpc, inflight, processed, running>>' = <<cpc, inflight, processed, running>>
        /\ Downstream' # Downstream => is_valid = "True" \/ rpc = "idle"
        /\ AcceptedOnlyVerified' ]_vars

\* A request with a wrong signature was answered 401 while an earlier event is
\* still on the queue.
C7_Witness ==
    /\ response.route = "POST"
    /\ response.status = 401
    /\ response.verified = "False"
    /\ event_queue # <<>>
    /\ rpc = "idle"

\* C8: a challenge is echoed back only for a request that passed signature
\* verification.
C8_ChallengeOnlyVerified ==
    response.body = "challenge" => response.verified = "True"

\* The type of the "event" member as _parse_event reads it.
RequestEventType == IF req.event.kind = "dict" THEN req.event.type ELSE None

\* C9: for a verified event_callback whose event is of a type other than
\* message and app_mention, so that _parse_event returns None, the request is
\* answered {"ok": true} and the queue, the callbacks and the consumer are
\* left as they were.
C9_UnrecognizedDropped ==
    [][ (/\ rpc = "verified"
         /\ rpc' # "verified"
         /\ req.type = "event_callback"
         /\ req.event.kind # "null"
         /\ RequestEventType \notin {"message", "app_mention"})
            => /\ rpc' = "idle"
               /\ response'.status = 200
               /\ response'.body = "ok"
               /\ response'.rid = req.id
               /\ Downstream' = Downstream
               /\ <<cpc, inflight, processed>>' = <<cpc, inflight, processed>> ]_vars

\* A verified event of an unrecognized type was answered ok while the queue
\* holds an earlier event.
C9_Witness ==
    /\ response.route = "POST"
    /\ response.path = "dropped"
    /\ response.status = 200
    /\ response.verified = "True"
    /\ event_queue # <<>>

\* C10: while a request is being handled none of its event's processing has
\* run; handle_event's body starts, if at all, for an event the consumer has
\* taken from the queue, and the consumer takes an event only after the
\* request that carried it was answered.
C10_NoProcessingInRequestPath ==
    /\ rpc # "idle" => req.id \notin (Range(handled) \cup Range(processed))
    /\ rpc # "idle" => (inflight = NoEvent \/ inflight.rid # req.id)
    /\ \A rid \in Range(handled) :
            rid \in Range(processed) \/ (inflight # NoEvent /\ inflight.rid = rid)
    /\ \A rid \in Range(processed) : rid \in Range(callbacks)

\* An event went through the request path, callback included, and then
\* through the consumer, and handle_event never started for it.
C10_Witness ==
    /\ callbacks # <<>>
    /\ callbacks[1] \in Range(processed)
    /\ handled = <<>>
    /\ rpc = "idle"

\* C2: the persisted current_state of a conversation changes only along an
\* edge of the legal transition table.
C2_PersistedStateLegal ==
    [][ \A i \in 1..Len(conversations) :
            conversations'[i].current_state # conversations[i].current_state
                => conversations'[i].current_state
                        \in VALID_TRANSITIONS[conversations[i].current_state] ]_vars

\* Events of one conversation: the payloads tried carry no thread_ts, so the
\* channel is the conversation key.
SameConversation(a, b) == a.channel = b.channel

\* C11: events of one conversation are processed in the order in which they
\* were enqueued: the waiting events of a conversation stand in arrival order,
\* the event being processed arrived before every waiting event of its
\* conversation, and every event already handed to the processing step arrived
\* before every event still waiting or in flight.  One event is in flight at a
\* time, so an earlier event's processing is over when a later one's starts.
C11_ArrivalOrder ==
    /\ \A i, j \in 1..Len(event_queue) :
            (i < j /\ SameConversation(event_queue[i], event_queue[j]))
                => event_queue[i].rid < event_queue[j].rid
    /\ inflight # NoEvent =>
            \A i \in 1..Len(event_queue) :
                SameConversation(event_queue[i], inflight)
                    => inflight.rid < event_queue[i].rid
    /\ \A rid \in Range(processed) :
            /\ inflight # NoEvent => rid < inflight.rid
            /\ \A i \in 1..Len(event_queue) : rid < event_queue[i].rid
    /\ \A i, j \in 1..Len(processed) : i < j => processed[i] < processed[j]

\* Two events of one conversation were waiting together; the earlier one is
\* being processed while the later one still waits.
C11_Witness ==
    /\ cpc = "process"
    /\ inflight # NoEvent
    /\ \E i \in 1..Len(event_queue) :
            /\ SameConversation(event_queue[i], inflight)
            /\ inflight.rid < event_queue[i].rid

\* The events that entered the queue and whose callback was made.
Pending == {event_queue[i].rid : i \in 1..Len(event_queue)}
               \cup (IF inflight = NoEvent THEN {} ELSE {inflight.rid})

\* C12: an event taken from the queue is handed to the processing step, also
\* after stop_processing: the loop never stops with an event in flight, an
\* event leaves the in-flight slot only into the processing step, the next
\* event is taken only after that, and every enqueued event is waiting, in
\* flight or handed over.
C12_DrainThenStop ==
    /\ [](cpc = "exited" => inflight = NoEvent)
    /\ [](\A rid \in Range(callbacks) : rid \in Pending \cup Range(processed))
    /\ [][ inflight # NoEvent =>
                \/ inflight' = inflight /\ processed' = processed
                \/ inflight' = NoEvent /\ processed' = Append(processed, inflight.rid) ]_vars
    /\ [][ (inflight' # NoEvent /\ inflight' # inflight) => inflight = NoEvent ]_vars

\* stop_processing was called while the consumer waited in get(); an event
\* arrived afterwards, was taken and was handed to the processing step, and the
\* loop is about to see the cleared flag.
C12_Witness ==
    /\ ~running
    /\ cpc = "test"
    /\ processed # <<>>
    /\ inflight = NoEvent

\* The four rule conditions as the decision table states them, on evaluate's
\* arguments: times in seconds, severities in units of 1/SeverityOne.
Rule1Holds ==
    /\ ev_in.conversation_state = "question_raised"
    /\ ev_in.signal_needs_owner
    /\ ev_in.time_in_state > 24 * 3600

Rule2Holds ==
    /\ ev_in.conversation_state \in {"question_raised", "clarifying"}
    /\ ev_in.clarification_count >= 3

Rule3Holds ==
    /\ ev_in.signal_intent = "question"
    /\ ev_in.now - ev_in.last_activity_at > 4 * 3600

Rule4Holds ==
    \E i \in 1..Len(ev_in.gap_severities) : 10 * ev_in.gap_severities[i] > 7 * SeverityOne

\* C13: evaluate returns the decision of the lowest-numbered rule whose
\* condition holds; when rule 1 holds the decision is prompt_ownership with
\* priority high whatever the other arguments are.
C13_FirstMatchWins ==
    ev_out # EvPending =>
        /\ Rule1Holds => ev_out = [action |-> "prompt_ownership", priority |-> "high"]
        /\ (~Rule1Holds /\ Rule2Holds) => ev_out.action = "suggest_context"
        /\ (~Rule1Holds /\ ~Rule2Holds /\ Rule3Holds) => ev_out.action = "nudge_response"
        /\ (~Rule1Holds /\ ~Rule2Holds /\ ~Rule3Holds /\ Rule4Holds)
                => ev_out.action = "flag_gap"

\* All four rules hold at once and rule 1 gave the decision.
C13_Witness ==
    /\ Rule1Holds /\ Rule2Holds /\ Rule3Holds /\ Rule4Holds
    /\ ev_out = [action |-> "prompt_ownership", priority |-> "high"]

\* Every strict threshold is met exactly, or the gap list is empty.
AtThresholds ==
    /\ ev_in.time_in_state = 24 * 3600
    /\ ev_in.now - ev_in.last_activity_at = 4 * 3600
    /\ \A i \in 1..Len(ev_in.gap_severities) : 10 * ev_in.gap_severities[i] <= 7 * SeverityOne

\* C14: evaluate returns None exactly when none of the four rule conditions
\* holds; with time in state exactly 24 hours, exactly 4 hours since the last
\* activity, and a gap list empty or with maximum exactly 0.7, those three
\* rules do not fire.
C14_NoDecisionIff ==
    ev_out # EvPending =>
        /\ ev_out = NoDecision <=> ~(Rule1Holds \/ Rule2Holds \/ Rule3Holds \/ Rule4Holds)
        /\ AtThresholds => ev_out.action \notin {"prompt_ownership", "nudge_response", "flag_gap"}

\* A question in question_raised that needs an owner, with every strict
\* threshold met exactly and fewer than 3 clarifications: no decision.
C14_Witness ==
    /\ ev_out = NoDecision
    /\ AtThresholds
    /\ ev_in.gap_severities # <<>>
    /\ ev_in.conversation_state = "question_raised"
    /\ ev_in.signal_needs_owner
    /\ ev_in.signal_intent = "question"

\* Seconds between the latest transition row and the clock detect_gaps read.
SecondsSince == gap_in.now - gap_in.transitions[Len(gap_in.transitions)].timestamp

\* C15: every ownership gap detect_gaps returns has severity
\* min(1.0, hoursSince / 72): between 0 and 1, and exactly 1 from 72 hours on.
\* In units of 1/SeverityOne, hoursSince / 72 is the number of seconds.
C15_OwnershipSeverity ==
    \A i \in 1..Len(gap_out) :
        gap_out[i].gap_type = "ownership" =>
            /\ gap_out[i].severity =
                    (IF SecondsSince >= 72 * 3600 THEN SeverityOne ELSE SecondsSince)
            /\ 0 <= gap_out[i].severity
            /\ gap_out[i].severity <= SeverityOne
            /\ SecondsSince >= 72 * 3600 => gap_out[i].severity = SeverityOne

\* An ownership gap was returned more than 72 hours after the question.
C15_Witness ==
    \E i \in 1..Len(gap_out) :
        /\ gap_out[i].gap_type = "ownership"
        /\ SecondsSince > 72 * 3600
        /\ gap_out[i].severity = SeverityOne

\* C16: once the consumer has processed every message event the gateway
\* accepted, a conversation stands in question_raised.  The signal of a message
\* is what the understanding agent returns for its text; the property is read
\* for messages whose signal is intent question with needs_owner true.
C16_EndToEnd ==
    (processed # <<>> /\ event_queue = <<>> /\ cpc = "get_wait" /\ rpc = "idle")
        => \E i \in 1..Len(conversations) : conversations[i].current_state = QUESTION_RAISED

\* C17: every answer of the webhook route is a success (200, ok or challenge)
\* or the authentication failure (401): handle_slack_event returns or raises
\* ValueError, never another exception.
C17_OnlySuccessOrAuthFailure ==
    response.route = "POST" => response.status \in {200, 401}

\* The signature over "v0:" + timestamp + ":" + rawBody under the signing
\* secret, for the inputs under study.
ColonSignature ==
    [prefix |-> "v0=",
     digest |-> HmacHex(SigningSecret,
                        <<"v", "0", ":">> \o vf_in.timestamp \o <<":">> \o vf_in.body)]

\* C18: verify_signature returns True exactly when the timestamp is within
\* 300 seconds of the current time and the signature header equals "v0=" plus
\* the hex HMAC-SHA256, under the signing secret, of
\* "v0:" + timestamp + ":" + rawBody; a signature over any other base string
\* is rejected.
C18_SignatureBaseString ==
    vf_out # VfPending =>
        (vf_out.gateway = "True"
            <=> /\ IsIntLiteral(vf_in.timestamp)
                /\ Age <= 300
                /\ Age >= 0 - 300
                /\ vf_in.signature = ColonSignature)

\* C19: the timestamps of successive entries of the transitions list are
\* strictly increasing, and the entry time recorded for a state never moves
\* backward.
C19_StrictlyTimeOrdered ==
    /\ [](\A i \in 1..(Len(transitions) - 1) :
                transitions[i].timestamp < transitions[i + 1].timestamp)
    /\ [][ \A s \in ConversationState :
                state_timestamps[s] # NoTime => state_timestamps'[s] >= state_timestamps[s] ]_vars

\* The state a get_time_in_state call is about, and the transitions that
\* entered it.
AskedState == IF sm_op.arg = None THEN current_state ELSE sm_op.arg

EntriesInto(s) == {i \in 1..Len(transitions) : transitions[i].to_state = s}

LastEntryInto(s) == CHOOSE i \in EntriesInto(s) : \A j \in EntriesInto(s) : j <= i

\* C20: get_time_in_state returns a number that is never negative; 0 for a
\* state no transition has entered, idle of a new machine included; otherwise
\* the seconds since the latest entry into the state, the entry lying between
\* the two clock readings of the transition that made it; without an argument
\* the state is the current one.
C20_TimeInState ==
    sm_op.name = "get_time_in_state" =>
        /\ sm_ret.kind = "float"
        /\ sm_ret.value >= 0
        /\ EntriesInto(AskedState) = {} => sm_ret.value = 0
        /\ EntriesInto(AskedState) # {} =>
                /\ sm_ret.value = sm_now - state_timestamps[AskedState]
                /\ sm_ret.value <= sm_now - transitions[LastEntryInto(AskedState)].timestamp
                /\ sm_ret.value >= sm_now - transitions[LastEntryInto(AskedState)].timestamp - 1

\* Called without an argument on a state entered twice, at different times:
\* the answer counts from the second entry.
C20_Witness ==
    /\ sm_op = [name |-> "get_time_in_state", arg |-> None]
    /\ Cardinality(EntriesInto(current_state)) = 2
    /\ \E i \in EntriesInto(current_state) :
            transitions[i].timestamp < transitions[LastEntryInto(current_state)].timestamp
    /\ sm_ret.value > 0
    /\ sm_ret.value = sm_now - state_timestamps[current_state]

\* The signal of the last handle_event call that got past add_message: it is
\* stored with the message the call added.
LastSignal == messages[Len(messages)]

\* C21: the state proposed from a signal depends on intent and needs_owner
\* only: question with needs_owner proposes question_raised, question without
\* proposes clarifying, resolution proposes resolved, bug_report proposes
\* in_progress, any other intent proposes idle, whatever the conversation's
\* current state is.
C21_ProposedState ==
    hd_last.outcome \notin {"none", "ValueError", "IntegrityError"} =>
        hd_last.proposed =
            CASE LastSignal.extracted_intent = "question" /\ LastSignal.needs_owner
                    -> "question_raised"
              [] LastSignal.extracted_intent = "question" /\ ~LastSignal.needs_owner
                    -> "clarifying"
              [] LastSignal.extracted_intent = "resolution" -> "resolved"
              [] LastSignal.extracted_intent = "bug_report" -> "in_progress"
              [] OTHER -> "idle"

\* A resolution arrived for a conversation standing in question_raised and
\* resolved was proposed.
C21_Witness ==
    /\ hd_last.outcome \notin {"none", "ValueError", "IntegrityError"}
    /\ hd_last.from_state = "question_raised"
    /\ LastSignal.extracted_intent = "resolution"
    /\ hd_last.proposed = "resolved"

\* A call that has read the conversation's state and has not ended.
InWork(u) == unit_pc[u] \notin {"created", "get_or_create", "done"}

\* C22: no two handle_event calls work on the conversation at the same time:
\* between a call's read of the persisted state and its end no other call has
\* read or written it, and the state a call overwrites is the one it read.
C22_OneUnitPerConversation ==
    /\ [](\A u, v \in Units : (u # v /\ InWork(u)) => ~InWork(v))
    /\ [][ \A u \in Units :
                (unit_pc[u] = "update" /\ unit_pc'[u] = "record")
                    => unit_read[u] = conv_state ]_vars

\* Two calls for the conversation have both written a state, the second one
\* having read what the first wrote.
C22_Witness ==
    /\ \A u \in {1, 2} :
            /\ unit_pc[u] = "done"
            /\ \E i \in 1..Len(unit_trace[u]) : unit_trace[u][i] = "update_conversation_state"
    /\ \E u \in {1, 2} : unit_read[u] \notin {None, IDLE}

\* The record before row k among the rows of the same conversation, 0 if none.
PreviousRecord(k) ==
    LET earlier == {j \in 1..(k - 1) :
                        state_transitions[j].conversation_id
                            = state_transitions[k].conversation_id}
    IN  IF earlier = {} THEN 0 ELSE CHOOSE j \in earlier : \A i \in earlier : i <= j

StagePositions(u, stage) == {i \in 1..Len(unit_trace[u]) : unit_trace[u][i] = stage}

\* C24: a call that has ended after its state transition attempt has run, in
\* this order, signal extraction, the transition attempt, decision evaluation
\* (CoordinationAgent.evaluate) and the gap scan (detect_gaps).
C24_UnitOfWorkOrder ==
    \A u \in Units :
        (unit_pc[u] = "done" /\ StagePositions(u, "update_conversation_state") # {}) =>
            \E a \in StagePositions(u, "analyze_message"),
               t \in StagePositions(u, "update_conversation_state"),
               e \in StagePositions(u, "evaluate"),
               g \in StagePositions(u, "detect_gaps") :
                a < t /\ t < e /\ e < g

\* A call that ended in its except clause: add_message raised, or
\* record_state_transition did.
Failed(u) ==
    /\ unit_pc[u] = "done"
    /\ unit_trace[u][Len(unit_trace[u])] \in {"add_message", "record_state_transition"}

Occurrences(rid) ==
    Cardinality({i \in 1..Len(event_queue) : event_queue[i].rid = rid})
        + (IF inflight # NoEvent /\ inflight.rid = rid THEN 1 ELSE 0)
        + Cardinality({i \in 1..Len(processed) : processed[i] = rid})

\* The request carries an event_callback whose event _parse_event keeps.
Recognized ==
    /\ req.type = "event_callback"
    /\ req.event.kind = "dict"
    /\ req.event.type \in {"message", "app_mention"}

\* C26: a request goes through received, verified, parsed or dropped,
\* enqueued, acknowledged in this order: the ok answer to a request with a
\* recognized event is sent when its event has been put on the queue, an
\* event is put on the queue only for a request that was verified and parsed
\* (the item is the parsed event of the request in hand), and no request
\* has more than one event enqueued.
C26_RequestStageOrder ==
    /\ [][ (/\ response' # response
            /\ response'.route = "POST"
            /\ response'.status = 200
            /\ response'.body = "ok"
            /\ Recognized)
                => /\ response'.rid = req.id
                   /\ Occurrences(req.id) = 1
                   /\ Occurrences(response.rid)' = 1 ]_vars
    /\ [][ Len(event_queue') > Len(event_queue)
                => /\ is_valid = "True"
                   /\ Recognized
                   /\ validated_event = parse_event(req.event, req.id)
                   /\ event_queue' = Append(event_queue, validated_event)
                   /\ response' = response ]_vars
    /\ [](\A rid \in 1..MaxRequests : Occurrences(rid) <= 1)

\* The second request with a recognized event was answered ok, and the events
\* of both requests are on the queue in the order of the requests.
C26_Witness ==
    /\ response.route = "POST"
    /\ response.rid = 2
    /\ response.status = 200
    /\ response.path = "enqueued"
    /\ Len(event_queue) = 2
    /\ event_queue[1].rid = 1
    /\ event_queue[2].rid = 2

\* The event handle_event is called on in this step was handled before: its
\* message is stored, or the call before this one was on the same event.
Redelivery ==
    /\ hd_count' = hd_count + 1
    /\ \/ \E k \in 1..Len(messages) :
                /\ messages[k].slack_message_ts = hd_last'.event.message_ts
                /\ ConversationMatches(conversations[messages[k].conversation_id],
                                       hd_last'.event.channel, hd_last'.event.thread_ts)
       \/ (hd_last # NoCall /\ hd_last.event = hd_last'.event)

\* C27: handling an event a second time changes nothing of what the first
\* handling left: every conversation row keeps its state, and the stored
\* messages and the transition records are the same.
C27_RedeliveryIdempotent ==
    [][ Redelivery =>
            /\ \A i \in 1..Len(conversations) : conversations'[i] = conversations[i]
            /\ messages' = messages
            /\ state_transitions' = state_transitions ]_vars

\* The event of a stored message whose conversation has left idle came a
\* second time, with a signal that proposes another state, and was refused
\* by the unique constraint.
C27_Witness ==
    /\ hd_last.outcome = "IntegrityError"
    /\ \E k \in 1..Len(messages) :
            /\ messages[k].slack_message_ts = hd_last.event.message_ts
            /\ messages[k].conversation_id = hd_last.conversation
            /\ messages[k].extracted_intent = "question"
    /\ hd_last.from_state = "question_raised"

\* C28: the conversations table holds at most one row per (channel,
\* thread_ts) key: get_or_create_conversation creates a row for the first
\* event of a key only and finds that row for every later one.
C28_OneConversationPerKey ==
    \A i, j \in 1..Len(conversations) :
        (/\ conversations[i].slack_channel_id = conversations[j].slack_channel_id
         /\ conversations[i].thread_ts = conversations[j].thread_ts)
            => i = j

\* detect_gaps has returned an ownership gap.
OwnershipGapEmitted == \E i \in 1..Len(gap_out) : gap_out[i].gap_type = "ownership"

\* C29: detect_gaps returns an ownership gap exactly when the conversation
\* is in question_raised, no transition row goes to owner_assigned, and more
\* than 24 hours lie between the latest transition row and the clock; never
\* without transition rows or at 24 hours sharp, and never more than one.
C29_OwnershipGapCondition ==
    gap_out # GapPending =>
        /\ OwnershipGapEmitted <=>
                (/\ gap_in.conversation = QUESTION_RAISED
                 /\ \A i \in 1..Len(gap_in.transitions) :
                        gap_in.transitions[i].to_state # OWNER_ASSIGNED
                 /\ gap_in.transitions # <<>>
                 /\ SecondsSince > 24 * 3600)
        /\ Cardinality({i \in 1..Len(gap_out) : gap_out[i].gap_type = "ownership"}) <= 1

\* A question one second past 24 hours after its latest transition row, which
\* is not the oldest one, got an ownership gap.
C29_Witness ==
    /\ OwnershipGapEmitted
    /\ Len(gap_in.transitions) > 1
    /\ SecondsSince = 24 * 3600 + 1

\* The places of the conversation's most recent ScanWindow messages.
RecentWindow ==
    {i \in 1..Len(gap_in.messages) : i > Len(gap_in.messages) - ScanWindow}

\* Pairs of question messages with the same text, both inside RecentWindow.
RepeatsInWindow ==
    Cardinality({ pair \in RecentWindow \X RecentWindow :
                    /\ pair[1] < pair[2]
                    /\ gap_in.messages[pair[1]].extracted_intent = "question"
                    /\ gap_in.messages[pair[2]].extracted_intent = "question"
                    /\ gap_in.messages[pair[1]].content = gap_in.messages[pair[2]].content })

\* C30: detect_gaps returns a context gap, one at most and of severity 0.6,
\* exactly when at least 2 pairs of question messages with the same text lie
\* within the conversation's most recent 10 messages; messages outside that
\* window add nothing to the count.
C30_ContextGapWindow ==
    (gap_out # GapPending /\ gap_in.conversation # NoConversation) =>
        /\ (\E i \in 1..Len(gap_out) : gap_out[i].gap_type = "context")
                <=> RepeatsInWindow >= 2
        /\ \A i \in 1..Len(gap_out) :
                gap_out[i].gap_type = "context" => gap_out[i].severity = Tenths(6)
        /\ Cardinality({i \in 1..Len(gap_out) : gap_out[i].gap_type = "context"}) <= 1

\* C31: a detect_gaps call leaves the conversation, its transition rows and
\* its messages as they were read, and the tables handle_event writes
\* untouched; communication_gaps gains exactly the gaps returned, in the
\* order returned, so nothing is stored when no gap is returned or the
\* conversation does not exist.
C31_GapScanFrame ==
    [][ gap_out' # gap_out =>
            /\ gap_in' = gap_in
            /\ <<conversations, messages, state_transitions>>'
                    = <<conversations, messages, state_transitions>>
            /\ communication_gaps' = communication_gaps \o gap_out'
            /\ Len(communication_gaps') = Len(communication_gaps) + Len(gap_out')
            /\ gap_in.conversation = NoConversation => communication_gaps' = communication_gaps
      ]_vars

\* A scan returned an ownership gap and a context gap and both were stored.
C31_Witness ==
    /\ Len(gap_out) = 2
    /\ communication_gaps = gap_out
    /\ gap_out[1].gap_type = "ownership"
    /\ gap_out[2].gap_type = "context"

\* C32: should_intervene returns True exactly for question_raised with more
\* than 86400 seconds in state and for in_progress with more than 172800;
\* False for every other state, at the thresholds themselves, and for a dict
\* without the state key (read as idle) or without the time key (read as 0).
C32_ShouldIntervene ==
    si_out # SiPending =>
        /\ si_out \in {"True", "False"}
        /\ si_out = "True" <=>
                (/\ si_in.has_state
                 /\ si_in.has_time
                 /\ \/ (/\ si_in.current_state = "question_raised"
                        /\ si_in.time_in_state_seconds > 86400)
                    \/ (/\ si_in.current_state = "in_progress"
                        /\ si_in.time_in_state_seconds > 172800))

\* in_progress at 172800 seconds sharp: False.
C32_Witness ==
    /\ si_out = "False"
    /\ si_in.has_state /\ si_in.has_time
    /\ si_in.current_state = "in_progress"
    /\ si_in.time_in_state_seconds = 172800

\* C33: decision_history holds the decisions evaluate has returned, in the
\* order returned: after a call that returned a decision, that decision is
\* the history's last entry.
C33_DecisionHistoryKept ==
    ev_out \notin {EvPending, NoDecision} =>
        /\ decision_history # <<>>
        /\ decision_history[Len(decision_history)] = ev_out

\* C34: self.transitions is append-only: every step of the state machine,
\* whichever method is called and whatever it returns, leaves the list with
\* its former content as a prefix, the former records unmodified.
C34_TransitionsAppendOnly ==
    [][ /\ Len(transitions') >= Len(transitions)
        /\ SubSeq(transitions', 1, Len(transitions)) = transitions ]_vars

\* get_state_history was called on a machine that has made two transitions
\* and returned both.
C34_Witness ==
    /\ sm_op.name = "get_state_history"
    /\ Len(transitions) = 2
    /\ Len(sm_ret.value) = 2
    /\ sm_ret.value[2].from = transitions[1].to_state

\* The states one legal transition away from a state of the set, and the set.
OneMore(S) == S \cup {t \in ConversationState : \E s \in S : can_transition(s, t)}

\* The states some sequence of one or more legal transitions leads to from
\* s: with six states, five rounds reach them all.
ReachableFrom(s) ==
    OneMore(OneMore(OneMore(OneMore(OneMore(
        {t \in ConversationState : can_transition(s, t)})))))

\* The table as a graph: no state without a successor, and every state
\* reached from every other one.
StronglyConnected ==
    /\ \A s \in ConversationState : \E t \in ConversationState : can_transition(s, t)
    /\ \A s, t \in ConversationState : s # t => t \in ReachableFrom(s)

\* C35: the lifecycle graph has no dead end and is cyclic: every state, the
\* machine's current one included, has a legal successor, resolved goes back
\* to idle and to question_raised, and every state is reached from every
\* other state by legal transitions.
C35_GraphCyclic ==
    /\ StronglyConnected
    /\ \E t \in ConversationState : can_transition(current_state, t)
    /\ can_transition(RESOLVED, IDLE)
    /\ can_transition(RESOLVED, QUESTION_RAISED)

\* A machine went to resolved and was reopened by a new question.
C35_Witness ==
    /\ Len(transitions) >= 2
    /\ transitions[Len(transitions)].from_state = RESOLVED
    /\ transitions[Len(transitions)].to_state = QUESTION_RAISED
    /\ current_state = QUESTION_RAISED

\* C36: handle_event never proposes owner_assigned, so no conversation is
\* ever in owner_assigned and no transition row leads into it: the gap
\* detector's "no transition into owner_assigned" test holds for every
\* conversation.
C36_OwnerAssignedNeverByEvents ==
    /\ hd_last # NoCall => hd_last.proposed # OWNER_ASSIGNED
    /\ \A i \in 1..Len(conversations) : conversations[i].current_state # OWNER_ASSIGNED
    /\ \A k \in 1..Len(state_transitions) : state_transitions[k].to_state # OWNER_ASSIGNED

\* A conversation that stood in question_raised was moved on to in_progress
\* by a bug report, without an owner ever having been assigned.
C36_Witness ==
    /\ hd_last # NoCall
    /\ hd_last.from_state = QUESTION_RAISED
    /\ hd_last.proposed = IN_PROGRESS
    /\ conversations[hd_last.conversation].current_state = IN_PROGRESS

\* stop_processing has been called.
StopRequested == cpc # "not_started" /\ ~running

\* The requests whose event stands on the queue.
Queued == {event_queue[i].rid : i \in 1..Len(event_queue)}

\* C37: as long as no shutdown has been asked for, an event on the queue is
\* eventually taken by the consumer and handed to the processing step, and
\* the consumer always takes the oldest event of the queue.
C37_EventuallyDequeued ==
    /\ \A rid \in 1..MaxRequests :
            (rid \in Queued /\ ~StopRequested) ~> (rid \in Range(processed) \/ StopRequested)
    /\ [][ (inflight' # inflight /\ inflight' # NoEvent)
                => (event_queue # <<>> /\ inflight' = Head(event_queue)) ]_vars

\* Three events were enqueued, no shutdown was asked for, and all three have
\* been handed to the processing step in the order of their requests.
C37_Witness ==
    /\ processed = <<1, 2, 3>>
    /\ callbacks = <<1, 2, 3>>
    /\ running
    /\ cpc = "get_wait"

\* C38: once stop_processing has been called the consumer loop eventually
\* exits (start_processing returns), whatever the queue holds at that moment
\* and whether or not a request comes later.
C38_LoopExitsAfterStop == StopRequested ~> (cpc = "exited")

====
